---- MODULE Spec2Model ----
(***************************************************************************)
(* Model of the interview scheduling bots:                                 *)
(*   src/autointerviewbot.py  seed-time search  (find_first_free_slot)     *)
(*   src/textbasedbot.py      range search      (find_1hr_slot_within_range)*)
(*                                                                         *)
(* A naive datetime is the number of minutes since 2024-01-01T00:00, which *)
(* is a Monday.  The code never separates minute, second and microsecond   *)
(* (it zeroes all three together, or copies all three together), so the    *)
(* sub-hour part of a datetime is one number, 0..59.                       *)
(***************************************************************************)
EXTENDS Integers, Sequences, FiniteSets, TLC

\* ------------------------------------------------------------ datetime

\* timedelta(hours=1)
HOUR == 60

\* timedelta(days=1)
DAY == 24 * HOUR

IsLeap(y) == (y % 4 = 0 /\ y % 100 # 0) \/ y % 400 = 0

DaysInYear(y) == IF IsLeap(y) THEN 366 ELSE 365

DaysInMonth(y, m) ==
    IF m = 2 THEN (IF IsLeap(y) THEN 29 ELSE 28)
    ELSE IF m \in {4, 6, 9, 11} THEN 30 ELSE 31

RECURSIVE DaysBeforeYear(_)
DaysBeforeYear(y) ==
    IF y <= 2024 THEN 0 ELSE DaysBeforeYear(y - 1) + DaysInYear(y - 1)

RECURSIVE DaysBeforeMonth(_, _)
DaysBeforeMonth(y, m) ==
    IF m <= 1 THEN 0 ELSE DaysBeforeMonth(y, m - 1) + DaysInMonth(y, m - 1)

\* datetime(y, m, d, h, mi): defined for a valid calendar date only
IsValidDate(y, m, d) == m \in 1..12 /\ d \in 1..DaysInMonth(y, m)

MkDateTime(y, m, d, h, mi) ==
    (DaysBeforeYear(y) + DaysBeforeMonth(y, m) + (d - 1)) * DAY + h * HOUR + mi

DayOf(t) == t \div DAY

MinuteOfDay(t) == t % DAY

\* dt.hour
Hour(t) == MinuteOfDay(t) \div HOUR

\* dt.minute, dt.second and dt.microsecond, as one number
SubHour(t) == t % HOUR

\* dt.weekday(): Monday = 0 ... Sunday = 6
Weekday(t) == DayOf(t) % 7

RECURSIVE YearFrom(_, _)
YearFrom(y, d) == IF d < DaysInYear(y) THEN y ELSE YearFrom(y + 1, d - DaysInYear(y))

\* dt.year
Year(t) == YearFrom(2024, DayOf(t))

RECURSIVE MonthFrom(_, _, _)
MonthFrom(y, m, d) ==
    IF d < DaysInMonth(y, m) THEN m ELSE MonthFrom(y, m + 1, d - DaysInMonth(y, m))

\* dt.month
Month(t) == MonthFrom(Year(t), 1, DayOf(t) - DaysBeforeYear(Year(t)))

\* dt.day
DayOfMonth(t) ==
    DayOf(t) - DaysBeforeYear(Year(t)) - DaysBeforeMonth(Year(t), Month(t)) + 1

\* dt.replace(hour=9, minute=0, second=0, microsecond=0)
ReplaceNineAM(t) == DayOf(t) * DAY + 9 * HOUR

\* dt.replace(minute=0, second=0, microsecond=0)
ReplaceTopOfHour(t) == t - SubHour(t)

\* ------------------------------------------------------------ TimeClamp

RECURSIVE SkipWeekendAtNine(_)
\* while ist_dt.weekday() >= 5: ist_dt += 1 day; ist_dt = 09:00 of that day
SkipWeekendAtNine(t) ==
    IF Weekday(t) >= 5 THEN SkipWeekendAtNine(ReplaceNineAM(t + DAY)) ELSE t

RECURSIVE SkipWeekendDays(_)
\* while ist_dt.weekday() >= 5: ist_dt += 1 day
SkipWeekendDays(t) ==
    IF Weekday(t) >= 5 THEN SkipWeekendDays(t + DAY) ELSE t

\* the evening branch with its inner weekend loop left out
EveningNoWeekendSkip(t) == ReplaceNineAM(t + DAY)

\* the evening branch without the step to the next day
EveningSameDay(t) == ReplaceNineAM(t)

\* elif ist_dt.hour >= 19: next day, skip the weekend, 09:00
EveningRoll(t) == ReplaceNineAM(SkipWeekendDays(t + DAY))

\* the weekend loop advancing the day but keeping the time of day
clamp_weekend_keeps_time(t) ==
    LET w == SkipWeekendDays(t)
    IN  IF Hour(w) < 9 THEN ReplaceNineAM(w)
        ELSE IF Hour(w) >= 19 THEN EveningRoll(w)
        ELSE w

\* the morning branch taken at 09:xx too
clamp_nine_is_early(t) ==
    LET w == SkipWeekendAtNine(t)
    IN  IF Hour(w) <= 9 THEN ReplaceNineAM(w)
        ELSE IF Hour(w) >= 19 THEN EveningRoll(w)
        ELSE w

\* the evening branch not taken at exactly 19:xx
clamp_nineteen_is_open(t) ==
    LET w == SkipWeekendAtNine(t)
    IN  IF Hour(w) < 9 THEN ReplaceNineAM(w)
        ELSE IF Hour(w) > 19 THEN EveningRoll(w)
        ELSE w

clamp_to_working_hours(t) ==
    LET w == SkipWeekendAtNine(t)
    IN  IF Hour(w) < 9 THEN ReplaceNineAM(w)
        ELSE IF Hour(w) >= 19 THEN EveningRoll(w)
        ELSE w

\* datetime(2025, dt.month, dt.day, ...) and dt.replace(year=2025) raise
\* ValueError when the date does not exist in 2025 (29 February)
ExistsIn2025(t) == IsValidDate(2025, Month(t), DayOfMonth(t))

\* dt.replace(year=2025) / datetime(2025, dt.month, dt.day, dt.hour, ...)
ReplaceYear2025(t) == MkDateTime(2025, Month(t), DayOfMonth(t), 0, 0) + MinuteOfDay(t)

\* virtual_2025: the floor
virtual_2025(now_ist) == ReplaceYear2025(now_ist)

\* clamp_to_future_2025 raises ValueError
clamp_to_future_2025_raises(ist_dt, now_ist) ==
    \/ Year(ist_dt) < 2025 /\ ~ExistsIn2025(ist_dt)
    \/ ~ExistsIn2025(now_ist)

\* the floor comparison left out
clamp_to_future_no_floor(ist_dt, now_ist) ==
    IF Year(ist_dt) < 2025 THEN ReplaceYear2025(ist_dt) ELSE ist_dt

\* the floor comparison the wrong way round
clamp_to_future_flipped(ist_dt, now_ist) ==
    LET y == IF Year(ist_dt) < 2025 THEN ReplaceYear2025(ist_dt) ELSE ist_dt
    IN  IF y > virtual_2025(now_ist) THEN virtual_2025(now_ist) ELSE y

\* a timestamp before the floor moved to the floor's date, keeping its time of day
clamp_to_future_keeps_time(ist_dt, now_ist) ==
    LET y == IF Year(ist_dt) < 2025 THEN ReplaceYear2025(ist_dt) ELSE ist_dt
    IN  IF y < virtual_2025(now_ist)
        THEN DayOf(virtual_2025(now_ist)) * DAY + MinuteOfDay(y)
        ELSE y

\* clamp_to_future_2025 where it returns
clamp_to_future_2025(ist_dt, now_ist) ==
    LET y == IF Year(ist_dt) < 2025 THEN ReplaceYear2025(ist_dt) ELSE ist_dt
    IN  IF y < virtual_2025(now_ist) THEN virtual_2025(now_ist) ELSE y

\* ------------------------------------------------------------ AvailabilityOracle

\* to_utc: IST is UTC+5:30
to_utc(ist_dt) == ist_dt - (5 * HOUR + 30)

\* the body of a freebusy query: <<timeMin, timeMax>>
freebusy_body(start_ist, end_ist) == <<to_utc(start_ist), to_utc(end_ist)>>

\* free as soon as one party is free
is_slot_free_for_either(recruiter_busy, candidate_busy) ==
    (recruiter_busy = {}) \/ (candidate_busy = {})

\* return (not recruiter_busy) and (not candidate_busy)
is_slot_free_for_both(recruiter_busy, candidate_busy) ==
    (recruiter_busy = {}) /\ (candidate_busy = {})

\* ------------------------------------------------------------ state

VARIABLES
    prog,        \* which program / function is running: "auto", "range", "clamp", "future"
    pc,          \* position in it
    clampArg,    \* clamp_to_working_hours: the argument
    clampOnce,   \* clamp_to_working_hours(clampArg)
    clampTwice,  \* clamp_to_working_hours(clampOnce)
    ai_time,     \* the timestamp found in the LLM's answer, None when there is none
    start_ist,   \* find_first_free_slot: the seed
    current,     \* find_first_free_slot / find_1hr_slot_within_range: current
    attempts,    \* find_first_free_slot: attempts
    now,         \* the clock, IST
    ticks,       \* how often the clock has advanced during the run
    floor,       \* virtual_2025 of the latest clamp_to_future_2025 call
    clamped,     \* what the latest clamp_to_future_2025 call returned
    free_slot,   \* the search's return value (start of the slot), None
    error,       \* the exception that ended the run, "" when none
    nQueries,    \* freebusy queries issued
    nProbes,     \* is_slot_free_for_both calls
    nFailed,     \* freebusy queries that failed
    busyProbes,  \* probes in which at least one party was reported busy
    probe,       \* <<start_ist, end_ist>> of the latest probe
    query,       \* <<timeMin, timeMax>> (UTC) of the latest freebusy query
    bothFree,    \* the latest probe reported both parties free
    inserts,     \* events().insert calls issued
    event,       \* <<start, end>> of the event sent to insert
    away,        \* the party whose calendar is busy throughout, "nobody" when none is
    candidate_start,  \* textbasedbot: start of the candidate's stated range, None
                      \* when the LLM's answer holds none
    candidate_end,    \* textbasedbot: its end
    calendar,    \* textbasedbot: each party's busy intervals <<start, end>>, UTC
    slot         \* find_1hr_slot_within_range's return value: (slot_start, slot_end)

clampVars == <<clampArg, clampOnce, clampTwice>>

searchVars == <<ai_time, start_ist, current, attempts, now, ticks, floor, clamped,
                free_slot,
                error, nQueries, nProbes, nFailed, busyProbes, probe, query,
                bothFree, inserts, event, away>>

rangeVars == <<candidate_start, candidate_end, calendar, slot>>

vars == <<prog, pc, clampVars, searchVars, rangeVars>>

\* return None / a value not yet computed
None == -1

NoPair == <<None, None>>

NoCalendar == [email \in {} |-> {}]

RECRUITER_EMAIL == "recruiter"

CANDIDATE_EMAIL == "candidate"

\* a party that is not away is reported busy in at most MaxBusyProbes probes of a run
MaxBusyProbes == 60

\* get_busy_slots: what the calendar service may answer for email and the window,
\* no busy interval or the busy part of the window (here: the whole window)
get_busy_slots(email, start, end) ==
    IF away = email THEN { {freebusy_body(start, end)} }
    ELSE IF busyProbes < MaxBusyProbes
         THEN { {}, {freebusy_body(start, end)} }
         ELSE { {} }

\* ------------------------------------------------------------ clamp_to_working_hours, applied

\* number of consecutive days the clamp's inputs are drawn from
ClampSpanDays == 9

\* sub-hour parts of the inputs
SubHours == {0, 1, 30, 59}

\* inputs: every hour of ClampSpanDays days from Thursday 2025-03-13 on
ClampInputs ==
    { MkDateTime(2025, 3, 13, 0, 0) + d * DAY + h * HOUR + s :
        d \in 0..(ClampSpanDays - 1), h \in 0..23, s \in SubHours }

\* inputs of other years: a year before 2025 (with its 29 February) and a year
\* after it
OtherYearInputs ==
    UNION { { MkDateTime(y, md[1], md[2], h, s) :
                md \in { x \in {<<2, 28>>, <<2, 29>>, <<3, 1>>, <<3, 17>>, <<12, 31>>} :
                           IsValidDate(y, x[1], x[2]) },
                h \in {0, 10, 23}, s \in {0, 30} } : y \in {2024, 2026} }

\* the clock of a clamp_to_future_2025 call
ClampNows ==
    { MkDateTime(2024, 7, 1, 10, 0),      \* a year before 2025
      MkDateTime(2025, 3, 15, 10, 0),     \* a Saturday
      MkDateTime(2025, 3, 17, 8, 5),      \* Monday, before 9
      MkDateTime(2025, 3, 17, 11, 20),    \* Monday
      MkDateTime(2025, 3, 17, 21, 30),    \* Monday, after 19
      MkDateTime(2025, 12, 31, 23, 59),   \* a minute before the year ends
      MkDateTime(2026, 11, 3, 16, 45),    \* a year after 2025
      MkDateTime(2028, 2, 29, 12, 0) }    \* 29 February

InitClamp ==
    /\ pc = "call"
    /\ \/ /\ prog = "clamp"
          /\ clampArg \in ClampInputs
          /\ now = None
       \/ /\ prog = "future"
          /\ clampArg \in ClampInputs \cup OtherYearInputs
          /\ now \in ClampNows
    /\ clampOnce = None
    /\ clampTwice = None
    /\ ai_time = None /\ start_ist = None /\ current = None /\ attempts = 0
    /\ ticks = 0 /\ floor = None /\ clamped = None /\ free_slot = None /\ error = ""
    /\ nQueries = 0 /\ nProbes = 0 /\ nFailed = 0 /\ busyProbes = 0
    /\ probe = NoPair /\ query = NoPair /\ bothFree = FALSE
    /\ inserts = 0 /\ event = NoPair /\ away = "nobody"
    /\ candidate_start = None /\ candidate_end = None
    /\ calendar = NoCalendar /\ slot = NoPair

ClampFirst ==
    /\ prog = "clamp" /\ pc = "call"
    /\ clampOnce' = clamp_to_working_hours(clampArg)
    /\ pc' = "again"
    /\ UNCHANGED <<prog, clampArg, clampTwice, searchVars, rangeVars>>

ClampSecond ==
    /\ prog = "clamp" /\ pc = "again"
    /\ clampTwice' = clamp_to_working_hours(clampOnce)
    /\ pc' = "done"
    /\ UNCHANGED <<prog, clampArg, clampOnce, searchVars, rangeVars>>

\* ist_dt = clamp_to_future_2025(ist_dt)
ClampFuture ==
    /\ prog = "future" /\ pc = "call"
    /\ ~clamp_to_future_2025_raises(clampArg, now)
    /\ floor' = virtual_2025(now)
    /\ clamped' = clamp_to_future_2025(clampArg, now)
    /\ pc' = "clamped"
    /\ UNCHANGED <<prog, clampVars, rangeVars, ai_time, start_ist, current, attempts, now,
                   ticks, free_slot, error, nQueries, nProbes, nFailed, busyProbes,
                   probe, query, bothFree, inserts, event, away>>

\* clamp_to_future_2025 raises
ClampFutureRaises ==
    /\ prog = "future" /\ pc = "call"
    /\ clamp_to_future_2025_raises(clampArg, now)
    /\ error' = "ValueError: day is out of range for month"
    /\ pc' = "raised"
    /\ UNCHANGED <<prog, clampVars, rangeVars, ai_time, start_ist, current, attempts, now,
                   ticks, floor, clamped, free_slot, nQueries, nProbes, nFailed,
                   busyProbes, probe, query, bothFree, inserts, event, away>>

\* ist_dt = clamp_to_working_hours(ist_dt), after clamp_to_future_2025
ClampFutureThenWorking ==
    /\ prog = "future" /\ pc = "clamped"
    /\ clampOnce' = clamp_to_working_hours(clamped)
    /\ pc' = "candidate"
    /\ UNCHANGED <<prog, clampArg, clampTwice, searchVars, rangeVars>>

NextClamp ==
    \/ ClampFirst
    \/ ClampSecond
    \/ ClampFuture
    \/ ClampFutureRaises
    \/ ClampFutureThenWorking

SpecClamp == InitClamp /\ [][NextClamp]_vars

\* ------------------------------------------------------------ autointerviewbot.py

max_attempts == 3000

\* seeds: NumSeeds timestamps, one every SeedStride from Thursday 2025-03-13T10:00
\* on (all weekdays, hours before 9, inside and after 19, sub-hour 0 and 30), and
\* ExtraSeeds
NumSeeds == 6

SeedStride == DAY + 5 * HOUR + 30

SeedAt(i) == MkDateTime(2025, 3, 13, 10, 0) + i * SeedStride

ExtraSeeds ==
    { MkDateTime(2024, 2, 29, 10, 0),    \* a Thursday of a year before 2025
      MkDateTime(2024, 6, 3, 10, 0),     \* a Monday of a year before 2025
      MkDateTime(2025, 3, 14, 19, 0),    \* Friday, exactly 19:00
      MkDateTime(2025, 3, 17, 18, 30),   \* Monday 18:30
      MkDateTime(2025, 12, 30, 14, 0) }  \* Tuesday, late in the year

Seeds == { SeedAt(i) : i \in 0..(NumSeeds - 1) } \cup ExtraSeeds

\* the clock when the program starts
Nows ==
    { MkDateTime(2025, 3, 17, 11, 20),    \* Monday
      MkDateTime(2025, 12, 31, 23, 59),   \* a minute before the year ends
      MkDateTime(2026, 11, 3, 16, 45),    \* a year after 2025
      MkDateTime(2028, 2, 28, 23, 59) }   \* a minute before 29 February

\* the clock advances at most MaxClockTicks times during a run, ClockStep each
MaxClockTicks == 1

ClockStep == 1

\* only the first MaxFailQuery freebusy queries of a run may fail
MaxFailQuery == 4

\* runs with a party away are started from the first NumLongSeeds seeds and from
\* 29 February 2024
NumLongSeeds == 1

LongSeeds == { SeedAt(i) : i \in 0..(NumLongSeeds - 1) } \cup {MkDateTime(2024, 2, 29, 10, 0)}

InitAuto ==
    /\ prog = "auto"
    /\ pc = "main"
    /\ \/ away = "nobody" /\ ai_time \in Seeds \cup {None}
       \/ away \in {RECRUITER_EMAIL, CANDIDATE_EMAIL} /\ ai_time \in LongSeeds
    /\ now \in Nows
    /\ clampArg = None /\ clampOnce = None /\ clampTwice = None
    /\ start_ist = None /\ current = None /\ attempts = 0
    /\ ticks = 0 /\ floor = None /\ clamped = None /\ free_slot = None /\ error = ""
    /\ nQueries = 0 /\ nProbes = 0 /\ nFailed = 0 /\ busyProbes = 0
    /\ probe = NoPair /\ query = NoPair /\ bothFree = FALSE
    /\ inserts = 0 /\ event = NoPair
    /\ candidate_start = None /\ candidate_end = None
    /\ calendar = NoCalendar /\ slot = NoPair

\* get_now_ist(): the clock never goes back
ClockReads == {now} \cup (IF ticks < MaxClockTicks THEN {now + ClockStep} ELSE {})

ReadClock(n) ==
    /\ n \in ClockReads
    /\ now' = n
    /\ ticks' = IF n = now THEN ticks ELSE ticks + 1

\* main: re.search finds no timestamp in the LLM's answer
MainNoTimestamp ==
    /\ prog = "auto" /\ pc = "main" /\ ai_time = None
    /\ pc' = "raised"
    /\ error' = "ValueError: no datetime"
    /\ UNCHANGED <<prog, clampVars, clamped, rangeVars, ai_time, start_ist, current, attempts, now, ticks,
                   floor, free_slot, nQueries, nProbes, busyProbes, probe, query,
                   bothFree, inserts, event, away, nFailed>>

\* main calls find_first_free_slot(service, ai_time_ist)
MainCallSearch ==
    /\ prog = "auto" /\ pc = "main" /\ ai_time # None
    /\ start_ist' = ai_time
    /\ current' = ai_time
    /\ attempts' = 0
    /\ pc' = "loop"
    /\ UNCHANGED <<prog, clampVars, clamped, rangeVars, ai_time, now, ticks, floor, free_slot, error,
                   nQueries, nProbes, busyProbes, probe, query, bothFree, inserts,
                   event, away, nFailed>>

InLoop == prog = "auto" /\ pc = "loop" /\ attempts < max_attempts

\* the clamps applied to the seed only, not in the iterations after the first
Candidate_clamped_once(n) ==
    IF attempts = 0 THEN clamp_to_working_hours(clamp_to_future_2025(current, n))
    ELSE current

\* the candidate of an iteration whose clock read is n
Candidate(n) == clamp_to_working_hours(clamp_to_future_2025(current, n))

\* what every iteration that reaches is_slot_free_for_both does: n the clock
\* read, c the candidate and q the number of queries it issues
Probing(n, c, q) ==
    /\ floor' = virtual_2025(n)
    /\ clamped' = clamp_to_future_2025(current, n)
    /\ probe' = <<c, c + HOUR>>
    /\ query' = freebusy_body(c, c + HOUR)
    /\ nProbes' = nProbes + 1
    /\ nQueries' = nQueries + q

\* an iteration in which clamp_to_future_2025 raises
IterClampRaises ==
    /\ InLoop
    /\ \E n \in ClockReads :
        /\ ReadClock(n)
        /\ clamp_to_future_2025_raises(current, n)
    /\ pc' = "raised"
    /\ error' = "ValueError: day is out of range for month"
    /\ UNCHANGED <<prog, clampVars, clamped, rangeVars, ai_time, start_ist, current, attempts, floor,
                   free_slot, nQueries, nProbes, busyProbes, probe, query, bothFree,
                   inserts, event, away, nFailed>>

\* an iteration in which the recruiter's freebusy query fails
IterRecruiterQueryFails ==
    /\ InLoop
    /\ nQueries < MaxFailQuery
    /\ \E n \in ClockReads :
        /\ ReadClock(n)
        /\ ~clamp_to_future_2025_raises(current, n)
        /\ LET c == Candidate(n)
           IN  Probing(n, c, 1) /\ current' = c
    /\ bothFree' = FALSE
    /\ nFailed' = nFailed + 1
    /\ pc' = "raised"
    /\ error' = "OracleQueryFailure: recruiter"
    /\ UNCHANGED <<prog, clampVars, rangeVars, ai_time, start_ist, attempts, free_slot,
                   busyProbes, inserts, event, away>>

\* the candidate's failed query caught and taken as "no busy interval"
IterCandidateFailureAssumedFree ==
    /\ InLoop
    /\ nQueries + 1 < MaxFailQuery
    /\ \E n \in ClockReads :
        /\ ReadClock(n)
        /\ ~clamp_to_future_2025_raises(current, n)
        /\ LET c == Candidate(n)
           IN  /\ Probing(n, c, 2)
               /\ \E recruiter_busy \in get_busy_slots(RECRUITER_EMAIL, c, c + HOUR) :
                   /\ bothFree' = FALSE
                   /\ busyProbes' = IF recruiter_busy # {}
                                    THEN busyProbes + 1 ELSE busyProbes
                   /\ IF is_slot_free_for_both(recruiter_busy, {})
                      THEN /\ current' = c
                           /\ free_slot' = c
                           /\ pc' = "returned"
                           /\ UNCHANGED attempts
                      ELSE /\ current' = c + HOUR
                           /\ attempts' = attempts + 1
                           /\ UNCHANGED <<free_slot, pc>>
    /\ nFailed' = nFailed + 1
    /\ UNCHANGED <<prog, clampVars, rangeVars, ai_time, start_ist, error, inserts, event,
                   away>>

\* an iteration in which the candidate's freebusy query fails, the recruiter's
\* having answered
IterCandidateQueryFails ==
    /\ InLoop
    /\ nQueries + 1 < MaxFailQuery
    /\ \E n \in ClockReads :
        /\ ReadClock(n)
        /\ ~clamp_to_future_2025_raises(current, n)
        /\ LET c == Candidate(n)
           IN  /\ Probing(n, c, 2) /\ current' = c
               /\ \E recruiter_busy \in get_busy_slots(RECRUITER_EMAIL, c, c + HOUR) : TRUE
    /\ bothFree' = FALSE
    /\ nFailed' = nFailed + 1
    /\ pc' = "raised"
    /\ error' = "OracleQueryFailure: candidate"
    /\ UNCHANGED <<prog, clampVars, rangeVars, ai_time, start_ist, attempts, free_slot,
                   busyProbes, inserts, event, away>>

\* an iteration whose two queries answer
IterProbe ==
    /\ InLoop
    /\ \E n \in ClockReads :
        /\ ReadClock(n)
        /\ ~clamp_to_future_2025_raises(current, n)
        /\ LET c == Candidate(n)
           IN  /\ Probing(n, c, 2)
               /\ \E recruiter_busy \in get_busy_slots(RECRUITER_EMAIL, c, c + HOUR),
                     candidate_busy \in get_busy_slots(CANDIDATE_EMAIL, c, c + HOUR) :
                   /\ bothFree' = (recruiter_busy = {} /\ candidate_busy = {})
                   /\ busyProbes' = IF recruiter_busy # {} \/ candidate_busy # {}
                                    THEN busyProbes + 1 ELSE busyProbes
                   /\ IF is_slot_free_for_both(recruiter_busy, candidate_busy)
                      THEN /\ current' = c
                           /\ free_slot' = c
                           /\ pc' = "returned"
                           /\ UNCHANGED attempts
                      ELSE /\ current' = c + HOUR
                           /\ attempts' = attempts + 1
                           /\ UNCHANGED <<free_slot, pc>>
    /\ UNCHANGED <<prog, clampVars, rangeVars, ai_time, start_ist, error, inserts, event,
                   away, nFailed>>

\* while attempts < max_attempts fails: return None
LoopExit ==
    /\ prog = "auto" /\ pc = "loop" /\ ~(attempts < max_attempts)
    /\ free_slot' = None
    /\ pc' = "returned"
    /\ UNCHANGED <<prog, clampVars, clamped, rangeVars, ai_time, start_ist, current, attempts, now, ticks,
                   floor, error, nQueries, nProbes, busyProbes, probe, query, bothFree,
                   inserts, event, away, nFailed>>

\* main: if not free_slot_ist: raise ValueError
MainNoSlot ==
    /\ prog = "auto" /\ pc = "returned" /\ free_slot = None
    /\ pc' = "raised"
    /\ error' = "ValueError: No free slot found"
    /\ UNCHANGED <<prog, clampVars, clamped, rangeVars, ai_time, start_ist, current, attempts, now, ticks,
                   floor, free_slot, nQueries, nProbes, busyProbes, probe, query,
                   bothFree, inserts, event, away, nFailed>>

\* a rejected insert tried again
MainInsertRetried ==
    /\ prog = "auto" /\ pc = "returned" /\ free_slot # None
    /\ inserts' = inserts + 1
    /\ event' = <<free_slot, free_slot + HOUR>>
    /\ \/ pc' = "done"
       \/ pc' = "returned"
    /\ UNCHANGED <<prog, clampVars, clamped, rangeVars, ai_time, start_ist, current, attempts, now, ticks,
                   floor, free_slot, error, nQueries, nProbes, busyProbes, probe, query,
                   bothFree, away, nFailed>>

\* main: service.events().insert(...).execute(), which answers or fails
MainInsert ==
    /\ prog = "auto" /\ pc = "returned" /\ free_slot # None
    /\ inserts' = inserts + 1
    /\ event' = <<free_slot, free_slot + HOUR>>
    /\ \/ pc' = "done" /\ UNCHANGED error
       \/ pc' = "raised" /\ error' = "BookingRejected"
    /\ UNCHANGED <<prog, clampVars, clamped, rangeVars, ai_time, start_ist, current, attempts, now, ticks,
                   floor, free_slot, nQueries, nProbes, busyProbes, probe, query,
                   bothFree, away, nFailed>>

NextAuto ==
    \/ MainNoTimestamp
    \/ MainCallSearch
    \/ IterClampRaises
    \/ IterRecruiterQueryFails
    \/ IterCandidateQueryFails
    \/ IterProbe
    \/ LoopExit
    \/ MainNoSlot
    \/ MainInsert

\* ------------------------------------------------------------ textbasedbot.py

\* the stated ranges lie on Monday 2025-03-24 from 13:00 on: they start up to 2 h
\* later, on the hour or 7 or 40 minutes past it, and end on a half hour up to
\* MaxRangeHours later (also before their start)
MaxRangeHours == 4

RangeBase == MkDateTime(2025, 3, 24, 13, 0)

RangeStarts == { RangeBase + h * HOUR + m : h \in 0..2, m \in {0, 7, 40} }

RangeEnds == { RangeBase + k * 30 : k \in 0..(2 * MaxRangeHours) }

\* busy intervals the calendars are made of, IST: <<minutes after RangeBase, length>>
RecruiterBusy == { <<60, 60>>, <<90, 60>>, <<120, 60>>, <<180, 60>> }

CandidateBusy == { <<60, 15>>, <<120, 60>> }

InUTC(busy) == { <<to_utc(RangeBase + b[1]), to_utc(RangeBase + b[1] + b[2])>> : b \in busy }

InitRange ==
    /\ prog = "range"
    /\ pc = "main"
    /\ \/ candidate_start \in RangeStarts /\ candidate_end \in RangeEnds
       \/ candidate_start = None /\ candidate_end = None
    /\ \E r \in SUBSET RecruiterBusy, c \in SUBSET CandidateBusy :
          calendar = [email \in {RECRUITER_EMAIL, CANDIDATE_EMAIL} |->
                        IF email = RECRUITER_EMAIL THEN InUTC(r) ELSE InUTC(c)]
    /\ slot = NoPair
    /\ clampArg = None /\ clampOnce = None /\ clampTwice = None
    /\ ai_time = None /\ start_ist = None /\ current = None /\ attempts = 0
    /\ now = None /\ ticks = 0 /\ floor = None /\ clamped = None /\ free_slot = None /\ error = ""
    /\ nQueries = 0 /\ nProbes = 0 /\ nFailed = 0 /\ busyProbes = 0
    /\ probe = NoPair /\ query = NoPair /\ bothFree = FALSE
    /\ inserts = 0 /\ event = NoPair /\ away = "nobody"

\* get_busy_slots of textbasedbot.py: the busy intervals of email's calendar that
\* overlap the window of the query
get_busy_slots_tb(email, start, end) ==
    { b \in calendar[email] :
        b[1] < freebusy_body(start, end)[2] /\ b[2] > freebusy_body(start, end)[1] }

\* current = candidate_start rounded down to the hour, never rounded up
round_down_to_hour(t) == ReplaceTopOfHour(t)

\* current = candidate_start.replace(minute=0, second=0, microsecond=0)
\* if current < candidate_start: current += timedelta(hours=1)
round_up_to_hour(t) ==
    IF ReplaceTopOfHour(t) < t THEN ReplaceTopOfHour(t) + HOUR ELSE ReplaceTopOfHour(t)

\* main: parse_candidate_availability raises (no JSON in the LLM's answer)
RangeNoAvailability ==
    /\ prog = "range" /\ pc = "main" /\ candidate_start = None
    /\ pc' = "raised"
    /\ error' = "ValueError: no JSON"
    /\ UNCHANGED <<prog, clampVars, clamped, rangeVars, ai_time, start_ist, current, attempts, now,
                   ticks, floor, free_slot, nQueries, nProbes, busyProbes, probe, query,
                   bothFree, inserts, event, away, nFailed>>

\* main calls find_1hr_slot_within_range, which sets current
RangeCallSearch ==
    /\ prog = "range" /\ pc = "main" /\ candidate_start # None
    /\ current' = round_up_to_hour(candidate_start)
    /\ pc' = "loop"
    /\ UNCHANGED <<prog, clampVars, clamped, rangeVars, ai_time, start_ist, attempts, now, ticks,
                   floor, free_slot, error, nQueries, nProbes, busyProbes, probe, query,
                   bothFree, inserts, event, away, nFailed>>

\* the loop leaving out the last slot of the range
while_slot_ends_before_range_end == current + HOUR < candidate_end

\* while current + timedelta(hours=1) <= candidate_end
while_slot_fits == current + HOUR <= candidate_end

RangeInLoop == prog = "range" /\ pc = "loop" /\ while_slot_fits

\* what every iteration does before the answers arrive, q the queries it issues
RangeProbing(q) ==
    /\ probe' = <<current, current + HOUR>>
    /\ query' = freebusy_body(current, current + HOUR)
    /\ nProbes' = nProbes + 1
    /\ nQueries' = nQueries + q

\* an iteration in which the recruiter's freebusy query fails
RangeRecruiterQueryFails ==
    /\ RangeInLoop
    /\ nQueries < MaxFailQuery
    /\ RangeProbing(1)
    /\ bothFree' = FALSE
    /\ nFailed' = nFailed + 1
    /\ pc' = "raised"
    /\ error' = "OracleQueryFailure: recruiter"
    /\ UNCHANGED <<prog, clampVars, clamped, rangeVars, ai_time, start_ist, current, attempts, now,
                   ticks, floor, free_slot, busyProbes, inserts, event, away>>

\* an iteration in which the candidate's freebusy query fails, the recruiter's
\* having answered
RangeCandidateQueryFails ==
    /\ RangeInLoop
    /\ nQueries + 1 < MaxFailQuery
    /\ RangeProbing(2)
    /\ bothFree' = FALSE
    /\ nFailed' = nFailed + 1
    /\ pc' = "raised"
    /\ error' = "OracleQueryFailure: candidate"
    /\ UNCHANGED <<prog, clampVars, clamped, rangeVars, ai_time, start_ist, current, attempts, now,
                   ticks, floor, free_slot, busyProbes, inserts, event, away>>

\* an iteration whose two queries answer
RangeProbe ==
    /\ RangeInLoop
    /\ RangeProbing(2)
    /\ LET r_busy == get_busy_slots_tb(RECRUITER_EMAIL, current, current + HOUR)
           c_busy == get_busy_slots_tb(CANDIDATE_EMAIL, current, current + HOUR)
       IN  /\ bothFree' = (r_busy = {} /\ c_busy = {})
           /\ busyProbes' = IF r_busy # {} \/ c_busy # {}
                            THEN busyProbes + 1 ELSE busyProbes
           /\ IF is_slot_free_for_both(r_busy, c_busy)
              THEN /\ slot' = <<current, current + HOUR>>
                   /\ pc' = "returned"
                   /\ UNCHANGED current
              ELSE /\ current' = current + HOUR
                   /\ UNCHANGED <<slot, pc>>
    /\ UNCHANGED <<prog, clampVars, clamped, candidate_start, candidate_end, calendar, ai_time,
                   start_ist, attempts, now, ticks, floor, free_slot, error, inserts,
                   event, away, nFailed>>

\* the loop ends: return None
RangeLoopExit ==
    /\ prog = "range" /\ pc = "loop" /\ ~while_slot_fits
    /\ slot' = NoPair
    /\ pc' = "returned"
    /\ UNCHANGED <<prog, clampVars, clamped, candidate_start, candidate_end, calendar, ai_time,
                   start_ist, current, attempts, now, ticks, floor, free_slot, error,
                   nQueries, nProbes, busyProbes, probe, query, bothFree, inserts, event,
                   away, nFailed>>

\* main: if not slot: print(...); return
RangeNoSlot ==
    /\ prog = "range" /\ pc = "returned" /\ slot = NoPair
    /\ pc' = "done"
    /\ UNCHANGED <<prog, clampVars, clamped, rangeVars, ai_time, start_ist, current, attempts, now,
                   ticks, floor, free_slot, error, nQueries, nProbes, busyProbes, probe,
                   query, bothFree, inserts, event, away, nFailed>>

\* main: create_calendar_event(service, slot_start, slot_end), which answers or fails
RangeCreateEvent ==
    /\ prog = "range" /\ pc = "returned" /\ slot # NoPair
    /\ inserts' = inserts + 1
    /\ event' = slot
    /\ \/ pc' = "done" /\ UNCHANGED error
       \/ pc' = "raised" /\ error' = "BookingRejected"
    /\ UNCHANGED <<prog, clampVars, clamped, rangeVars, ai_time, start_ist, current, attempts, now,
                   ticks, floor, free_slot, nQueries, nProbes, busyProbes, probe, query,
                   bothFree, away, nFailed>>

NextRange ==
    \/ RangeNoAvailability
    \/ RangeCallSearch
    \/ RangeRecruiterQueryFails
    \/ RangeCandidateQueryFails
    \/ RangeProbe
    \/ RangeLoopExit
    \/ RangeNoSlot
    \/ RangeCreateEvent

\* ------------------------------------------------------------ the two programs

Init == InitAuto \/ InitRange

Next == NextAuto \/ NextRange

Spec == Init /\ [][Next]_vars

\* ------------------------------------------------------------ the programs and the clamps

InitAll == Init \/ InitClamp

NextAll == Next \/ NextClamp

SpecAll == InitAll /\ [][NextAll]_vars

\* ------------------------------------------------------------ claims

\* Monday-Friday, 09:00 (inclusive) to 19:00 (exclusive)
InBusinessHours(t) == Weekday(t) <= 4 /\ Hour(t) >= 9 /\ Hour(t) < 19

\* find_first_free_slot has returned a slot / has returned None
Found == prog = "auto" /\ free_slot # None

Exhausted == prog = "auto" /\ pc = "returned" /\ free_slot = None

\* C1: a slot start returned by find_first_free_slot is the start of the latest
\* probe, that probe queried exactly [t, t+1h) (as UTC, 5:30 earlier) and reported
\* both parties free, and every earlier probe of the run reported a party busy.
C1_FoundIsFirstFree ==
    Found =>
        /\ probe = <<free_slot, free_slot + 60>>
        /\ query = <<free_slot - 330, free_slot - 270>>
        /\ bothFree
        /\ busyProbes = nProbes - 1
        /\ nQueries = 2 * nProbes

\* C1 witness: a slot was returned after three probes that reported a party busy.
C1_Witness ==
    Found /\ pc = "returned" /\ nProbes = 4 /\ busyProbes = 3 /\ bothFree

\* C2: find_first_free_slot ends in Found or Exhausted after at most 3000 probes,
\* whatever the seed and whatever the calendars answer: it never raises unless a
\* query failed.
C2_SearchReachesFoundOrExhausted ==
    prog = "auto" =>
        /\ nProbes <= 3000
        /\ (pc = "loop" => nProbes = attempts)
        /\ (pc = "raised" =>
                error \in {"ValueError: no datetime", "OracleQueryFailure: recruiter",
                           "OracleQueryFailure: candidate",
                           "ValueError: No free slot found", "BookingRejected"})

\* C3: with an oracle that reports a party busy on every probe (that party is
\* away) and no failing query, the search raises nothing and returns None, after
\* exactly 3000 probes.
C3_AllBusyIsExhausted ==
    (prog = "auto" /\ away # "nobody" /\ nFailed = 0)
        => /\ error \in {"", "ValueError: No free slot found"}
           /\ free_slot = None
           /\ (pc \in {"returned", "raised"} => nProbes = 3000 /\ busyProbes = 3000)

\* C4: every candidate start passed to the oracle, in every iteration, is on
\* Monday-Friday with hour in [9, 19) and is not earlier than the floor of that
\* iteration, the clock with its year replaced by 2025.
C4_ProbesInBusinessHours ==
    (prog = "auto" /\ nProbes > 0) =>
        /\ InBusinessHours(probe[1])
        /\ probe[1] >= floor
        /\ probe[2] = probe[1] + 60
        /\ (error # "ValueError: day is out of range for month" =>
                /\ Year(floor) = 2025
                /\ Month(floor) = Month(now) /\ DayOfMonth(floor) = DayOfMonth(now)
                /\ MinuteOfDay(floor) = MinuteOfDay(now))

\* C4 witness: a later probe starts on a Monday at 09:00, which only an advance
\* from a Friday slot past 19:00, across the weekend, produces.
C4_Witness ==
    /\ prog = "auto" /\ pc = "loop" /\ nProbes >= 2
    /\ Weekday(probe[1]) = 0 /\ MinuteOfDay(probe[1]) = 9 * 60
    /\ probe[1] > floor

\* C5 as stated: a seed inside business hours, with every query answering free, is
\* returned unchanged after a single probe.
C5_SeedReturnedUnchanged ==
    (prog = "auto" /\ pc = "returned" /\ busyProbes = 0 /\ InBusinessHours(start_ist))
        => free_slot = start_ist /\ nProbes = 1

\* C5 amended: a seed inside business hours that is not earlier than the floor (the
\* clock with its year replaced by 2025), with every query answering free, is
\* returned unchanged after a single probe.
C5_SeedAtOrAfterFloorReturnedUnchanged ==
    (prog = "auto" /\ pc = "returned" /\ busyProbes = 0 /\ InBusinessHours(start_ist)
        /\ start_ist >= floor)
        => free_slot = start_ist /\ nProbes = 1

\* C5 witness: the seed Monday 2025-03-17T18:30, after the floor, was returned.
C5_Witness ==
    /\ prog = "auto" /\ pc = "returned" /\ busyProbes = 0
    /\ start_ist = MkDateTime(2025, 3, 17, 18, 30)
    /\ floor = MkDateTime(2025, 3, 17, 11, 20)
    /\ free_slot = start_ist

QueryFailed == error \in {"OracleQueryFailure: recruiter", "OracleQueryFailure: candidate"}

\* C6: once a freebusy query has failed, in either program, the run has ended with
\* that error: the failed probe is not taken as free, no slot and no not-found was
\* returned, no event was created and no further step (no probe) is taken.
C6_QueryFailureStopsSearch ==
    nFailed > 0 =>
        /\ nFailed = 1
        /\ pc = "raised" /\ QueryFailed
        /\ free_slot = None /\ slot = NoPair
        /\ inserts = 0 /\ event = NoPair
        /\ ~ENABLED Next

\* C6 witness: in each program the candidate's query of the second probe failed,
\* the recruiter's having been answered.
C6_Witness ==
    /\ nFailed = 1 /\ error = "OracleQueryFailure: candidate"
    /\ nProbes = 2 /\ nQueries = 4 /\ busyProbes = 1
    /\ prog = "auto"

\* C6, range search: the same state in textbasedbot.py.
C6_WitnessRange ==
    /\ nFailed = 1 /\ error = "OracleQueryFailure: candidate"
    /\ nProbes = 2 /\ nQueries = 4 /\ busyProbes = 1
    /\ prog = "range"

\* the hourly slots of the stated range both calendars leave free
FreeInCalendar(email, s) ==
    \A b \in calendar[email] : ~(b[1] < s - 270 /\ b[2] > s - 330)

FreeSlotsInRange ==
    { s \in candidate_start..candidate_end :
        /\ s % 60 = 0
        /\ s + 60 <= candidate_end
        /\ FreeInCalendar(RECRUITER_EMAIL, s) /\ FreeInCalendar(CANDIDATE_EMAIL, s) }

RangeReturned ==
    /\ prog = "range"
    /\ pc = "returned" \/ pc = "done" \/ (pc = "raised" /\ error = "BookingRejected")

\* C7: find_1hr_slot_within_range returns the earliest slot that starts on the
\* hour, not before rangeStart, ends by rangeEnd and is free for both parties, and
\* returns not-found exactly when there is no such slot.
C7_RangeReturnsEarliestFreeSlot ==
    RangeReturned =>
        IF FreeSlotsInRange = {}
        THEN slot = NoPair
        ELSE /\ slot[1] \in FreeSlotsInRange
             /\ \A s \in FreeSlotsInRange : slot[1] <= s
             /\ slot[2] = slot[1] + 60

\* C7 witness: range [13:40, 16:00), the recruiter busy 14:00-15:00 only:
\* 14:00 was probed and rejected, [15:00, 16:00) returned.
C7_Witness ==
    /\ prog = "range" /\ pc = "returned"
    /\ candidate_start = MkDateTime(2025, 3, 24, 13, 40)
    /\ candidate_end = MkDateTime(2025, 3, 24, 16, 0)
    /\ calendar[RECRUITER_EMAIL] =
          {<<MkDateTime(2025, 3, 24, 8, 30), MkDateTime(2025, 3, 24, 9, 30)>>}
    /\ calendar[CANDIDATE_EMAIL] = {}
    /\ nProbes = 2 /\ busyProbes = 1
    /\ slot = <<MkDateTime(2025, 3, 24, 15, 0), MkDateTime(2025, 3, 24, 16, 0)>>

\* C8: the first probed slot of a range search starts at the smallest time on the
\* hour that is not before rangeStart (rounded up, a start on the hour kept), and
\* no probed slot starts before rangeStart or off the hour.
C8_RangeStartRoundedUp ==
    prog = "range" =>
        /\ (pc = "loop" /\ nProbes = 0) =>
              /\ current % 60 = 0
              /\ current >= candidate_start
              /\ current - candidate_start < 60
        /\ nProbes = 1 =>
              /\ probe[1] >= candidate_start
              /\ probe[1] - candidate_start < 60
        /\ nProbes >= 1 => (probe[1] % 60 = 0 /\ probe[1] >= candidate_start)

\* C8 witness: rangeStart 14:07, first probed slot 15:00.
C8_Witness ==
    /\ prog = "range" /\ nProbes = 1
    /\ candidate_start = MkDateTime(2025, 3, 24, 14, 7)
    /\ probe = <<MkDateTime(2025, 3, 24, 15, 0), MkDateTime(2025, 3, 24, 16, 0)>>

\* C9: clamp_to_working_hours is idempotent: clamping the clamped value of
\* any timestamp gives the clamped value again.
C9_ClampIdempotent ==
    (prog = "clamp" /\ pc = "done") => clampTwice = clampOnce

\* C9 witness: a Friday-evening input was clamped twice and moved by the first.
C9_Witness ==
    /\ prog = "clamp" /\ pc = "done"
    /\ Weekday(clampArg) = 4 /\ Hour(clampArg) >= 19
    /\ clampOnce # clampArg

\* C10: a Saturday or Sunday timestamp is clamped to a Monday-Friday day at
\* exactly 09:00.
C10_WeekendToNine ==
    (prog = "clamp" /\ pc # "call" /\ Weekday(clampArg) >= 5)
        => /\ Weekday(clampOnce) <= 4
           /\ MinuteOfDay(clampOnce) = 9 * HOUR

\* C10 witness: a Saturday afternoon input with a non-zero sub-hour part was clamped.
C10_Witness ==
    /\ prog = "clamp" /\ pc # "call"
    /\ Weekday(clampArg) = 5 /\ Hour(clampArg) = 15 /\ SubHour(clampArg) = 30
    /\ clampOnce = MkDateTime(2025, 3, 17, 9, 0)

\* C11: a timestamp on Monday-Friday with hour in [9, 19), exactly 09:00 and
\* non-zero minutes included, is returned unchanged by clamp_to_working_hours,
\* called on its own or after clamp_to_future_2025.
C11_BusinessHoursUnchanged ==
    /\ (prog = "clamp" /\ pc # "call" /\ InBusinessHours(clampArg))
            => clampOnce = clampArg
    /\ (prog = "future" /\ pc = "candidate" /\ InBusinessHours(clamped))
            => clampOnce = clamped

\* C11 witness: Monday exactly 09:00 and Friday 18:59 have both been clamped
\* (the latter in another run) and came back as they were.
C11_Witness ==
    /\ prog = "clamp" /\ pc # "call"
    /\ clampArg \in {MkDateTime(2025, 3, 17, 9, 0), MkDateTime(2025, 3, 14, 18, 59)}
    /\ clampOnce = clampArg

\* the first Monday-Friday day after t's date, as a day number
NextBusinessDayAfter(t) ==
    CHOOSE e \in (DayOf(t) + 1)..(DayOf(t) + 3) :
        /\ e % 7 <= 4
        /\ \A f \in (DayOf(t) + 1)..(e - 1) : f % 7 >= 5

\* C12: a timestamp with hour >= 19, exactly 19:00 included and whatever its
\* weekday, is clamped to 09:00 of the next Monday-Friday day after its date
\* (Friday 19:00 gives Monday 09:00).
C12_EveningToNextBusinessDay ==
    /\ (prog = "clamp" /\ pc # "call" /\ Hour(clampArg) >= 19)
            => clampOnce = NextBusinessDayAfter(clampArg) * DAY + 9 * HOUR
    /\ (prog = "future" /\ pc = "candidate" /\ Hour(clamped) >= 19)
            => clampOnce = NextBusinessDayAfter(clamped) * DAY + 9 * HOUR

\* C12 witness: Friday 2025-03-14 at exactly 19:00 was clamped to Monday
\* 2025-03-17 09:00.
C12_Witness ==
    /\ prog = "clamp" /\ pc # "call"
    /\ clampArg = MkDateTime(2025, 3, 14, 19, 0)
    /\ clampOnce = MkDateTime(2025, 3, 17, 9, 0)

\* f is the clock n with its year replaced by 2025
IsReanchored(f, n) ==
    /\ Year(f) = 2025
    /\ Month(f) = Month(n) /\ DayOfMonth(f) = DayOfMonth(n)
    /\ MinuteOfDay(f) = MinuteOfDay(n)

\* C13: what clamp_to_future_2025 returns is never earlier than the floor,
\* the current moment with its year replaced by 2025, and never of a year
\* before 2025.
C13_NotBeforeFloor ==
    (prog = "future" /\ pc \in {"clamped", "candidate"})
        => /\ IsReanchored(floor, now)
           /\ clamped >= floor
           /\ Year(clamped) >= 2025

\* C13 witness: a timestamp of 2024 was clamped with the clock on 2025-03-17
\* and came back as the floor.
C13_Witness ==
    /\ prog = "future" /\ pc = "clamped"
    /\ clampArg = MkDateTime(2024, 3, 1, 10, 0)
    /\ now = MkDateTime(2025, 3, 17, 11, 20)
    /\ clamped = MkDateTime(2025, 3, 17, 11, 20)

\* C14: what clamp_to_future_2025 returns is never earlier than the real
\* current moment, whatever the real year, and so no returned slot starts
\* before the real current moment.  The moment compared with is the earliest
\* one of the run, the clock when the run started.
C14_NotBeforeRealNow ==
    /\ (prog = "auto" /\ nProbes >= 1) => clamped >= now - ticks * ClockStep
    /\ Found => free_slot >= now - ticks * ClockStep

\* the seed 2025-03-13T10:00:00 is being clamped with the clock on 2025-03-17:
\* by a clamp_to_future_2025 call on its own, or in the first iteration of the
\* seed-time search
SeedBehindToday ==
    /\ DayOf(now) = DayOf(MkDateTime(2025, 3, 17, 0, 0))
    /\ \/ /\ prog = "future" /\ pc \in {"clamped", "candidate"}
          /\ clampArg = MkDateTime(2025, 3, 13, 10, 0)
       \/ /\ prog = "auto" /\ nProbes = 1
          /\ start_ist = MkDateTime(2025, 3, 13, 10, 0)

\* C15 as stated: the seed 2025-03-13T10:00:00, clamped with the real date
\* 2025-03-17 at any time of day, becomes 2025-03-17T10:00:00 (today's date,
\* the seed's time of day).
C15_SeedMovedToTodayKeepingTime ==
    SeedBehindToday => clamped = MkDateTime(2025, 3, 17, 10, 0)

\* C15 amended: the seed 2025-03-13T10:00:00, clamped with the real date
\* 2025-03-17, becomes the floor, 2025-03-17 at the clock's time of day; in the
\* search the clamp comes before any query: the first probe (the only one so
\* far, of at most two queries) is not about the seed but starts at or after
\* the clamped value, at it when it lies in business hours.
C15_SeedMovedToFloor ==
    SeedBehindToday
        => /\ clamped = now
           /\ prog = "auto"
                => /\ nQueries <= 2
                   /\ probe[1] >= clamped
                   /\ InBusinessHours(clamped) => probe[1] = clamped
                   /\ query = <<to_utc(probe[1]), to_utc(probe[1] + HOUR)>>

\* C15 witness: the search seeded with 2025-03-13T10:00:00 has made its first
\* probe with the clock at 2025-03-17T11:20, at 2025-03-17T11:20.
C15_Witness ==
    /\ prog = "auto" /\ nProbes = 1
    /\ start_ist = MkDateTime(2025, 3, 13, 10, 0)
    /\ now = MkDateTime(2025, 3, 17, 11, 20)
    /\ clamped = MkDateTime(2025, 3, 17, 11, 20)
    /\ probe[1] = MkDateTime(2025, 3, 17, 11, 20)

\* C16: in both programs the event-creation call is issued at most once per
\* run, and only for a slot the search returned after both parties were
\* reported free; no event is created when the search returned no slot, a
\* query failed or the run raised before; a rejected event creation ends the
\* run, it is not retried with the same or another slot.
C16_EventCreatedAtMostOnce ==
    /\ inserts <= 1
    /\ inserts = 1
        => /\ bothFree /\ nFailed = 0
           /\ event = probe
           /\ prog = "auto" => free_slot = probe[1]
           /\ prog = "range" => slot = probe
           /\ pc \in {"done", "raised"}
    /\ (Exhausted \/ nFailed > 0 \/ (RangeReturned /\ slot = NoPair))
        => inserts = 0 /\ event = NoPair
    /\ (pc = "raised" /\ error # "BookingRejected") => inserts = 0
    /\ error = "BookingRejected"
        => inserts = 1 /\ pc = "raised" /\ ~ENABLED Next

\* C16 witness: the seed-time search returned a slot at its third probe and
\* the one event-creation call was rejected.
C16_Witness ==
    /\ prog = "auto" /\ nProbes = 3 /\ Found
    /\ inserts = 1 /\ error = "BookingRejected"

\* a maximum span, in hours, shorter than the longest range searched here;
\* find_1hr_slot_within_range has none
SpanCeilingHours == MaxRangeHours - 2

\* C17: the range search is guarded by a fixed maximum span: it issues no more
\* probes than the ceiling's hours, a longer range being rejected rather than
\* scanned hour by hour up to rangeEnd.
C17_ProbesBoundedByMaxSpan ==
    prog = "range" => nProbes <= SpanCeilingHours

\* C18: every slot [t, t+1h) returned by the seed-time search lies entirely
\* inside business hours: t is at or after 09:00 on a Monday-Friday day and
\* t+1h is at or before 19:00 of the same day.
C18_SlotInsideBusinessHours ==
    Found => /\ Weekday(free_slot) <= 4
             /\ MinuteOfDay(free_slot) >= 9 * HOUR
             /\ MinuteOfDay(free_slot) + HOUR <= 19 * HOUR

\* clamp_to_working_hours has returned a value not before its argument, on
\* every call made so far; in the search the probe's start is that value and
\* clamp_to_future_2025's result the argument
ClampNotBackwards ==
    /\ (prog = "clamp" /\ pc # "call") => clampOnce >= clampArg
    /\ (prog = "clamp" /\ pc = "done") => clampTwice >= clampOnce
    /\ (prog = "future" /\ pc = "candidate")
            => clampOnce >= clamped /\ clampOnce >= floor
    /\ (prog = "auto" /\ nProbes >= 1)
            => probe[1] >= clamped /\ probe[1] >= floor

\* a probe of the seed-time search that is not the first starts later than
\* the probe before it
ProbeLaterThanPrevious ==
    (prog = "auto" /\ nProbes >= 1 /\ nProbes' = nProbes + 1)
        => probe'[1] > probe[1]

\* C19: clamp_to_working_hours never moves a timestamp backwards; so the
\* working-hours clamp never undoes the future clamp applied just before it
\* (the probed start is not before the future clamp's result nor before the
\* floor), and the starts probed in successive iterations of the seed-time
\* search strictly increase.
C19_ClampNeverGoesBack ==
    []ClampNotBackwards /\ [][ProbeLaterThanPrevious]_vars

\* C19 witness: the Monday 18:30 slot was busy, the next candidate 19:30 passed
\* the future clamp unchanged and the working-hours clamp moved it forward to
\* Tuesday 09:00, the second probe.
C19_Witness ==
    /\ prog = "auto" /\ nProbes = 2
    /\ start_ist = MkDateTime(2025, 3, 17, 18, 30)
    /\ clamped = MkDateTime(2025, 3, 17, 19, 30)
    /\ probe[1] = MkDateTime(2025, 3, 18, 9, 0)

\* C20: clamp_to_future_2025 is total: for every timestamp and every clock,
\* 29 February included, it returns a timestamp, so neither a call of it nor
\* the seed-time search ends with the error raised inside the clamp step.
C20_FutureClampTotal ==
    /\ error # "ValueError: day is out of range for month"
    /\ (prog = "future" /\ pc # "call") => clamped # None
====
